---- MODULE Spec2Model ----
(***************************************************************************)
(* A model of the trajectory engine of cornhole_coach                      *)
(* (src/src/cornhole_coach/physics.py).                                    *)
(*                                                                         *)
(* Numbers.  The program computes in floating point.  The model computes   *)
(* in exact rational arithmetic: a number is a pair <<n, d>> in lowest     *)
(* terms with d > 0.  np.sqrt is modelled on the arguments whose root is   *)
(* rational, so the calls the model makes are those whose every            *)
(* intermediate value is a rational number (ExactRoots, ExactSpeed).       *)
(***************************************************************************)
EXTENDS Integers, Sequences, FiniteSets

(***************************************************************************)
(* Bounds of the model.                                                    *)
(***************************************************************************)
\* heights y0 range over the integers -MaxY0 .. MaxY0 (feet)
MaxY0 == 3
\* vertical launch speeds vy0 range over -MaxVyDown .. MaxVy0 (ft/s)
MaxVy0 == 4
MaxVyDown == 2
\* time_step and max_time are multiples of 1/TimeDen seconds
TimeDen == 4
\* time_step ranges over 1/TimeDen .. MaxStepNum/TimeDen
MaxStepNum == 3
\* max_time ranges over -1/TimeDen .. MaxTimeNum/TimeDen
MaxTimeNum == 7
\* horizontal_distance ranges over -MaxDist .. MaxDist (feet), and FarTarget
MaxDist == 3
\* num_solutions ranges over -1 .. MaxSolutions
MaxSolutions == 4
\* _get_force_rating is called with speeds from -1 to MaxForceSpeed ft/s
MaxForceSpeed == 50
\* the positions of the global random stream told apart
RngPeriod == 2
\* _calculate_success_probability: distances up to MaxProbabilityNum / 4 ft
MaxProbabilityNum == 20
\* the distance and height of the unreachable target of test_impossible_trajectory
FarTarget == 100

(***************************************************************************)
(* Exact rational arithmetic: the float operators of the source.           *)
(***************************************************************************)
Abs(i) == IF i < 0 THEN -i ELSE i

RECURSIVE GCD(_, _)
GCD(a, b) == IF b = 0 THEN a ELSE GCD(b, a % b)

\* the rational n/d in lowest terms, d > 0
\* (n, d and their divisor are evaluated once each)
Q(n, d) ==
    CHOOSE q \in { IF p[2] < 0 THEN << (-p[1]) \div p[3], (-p[2]) \div p[3] >>
                   ELSE << p[1] \div p[3], p[2] \div p[3] >> :
                   p \in { << m[1], m[2], GCD(Abs(m[1]), Abs(m[2])) >> :
                            m \in { << n, d >> } } } : TRUE

Int2Q(i) == << i, 1 >>
Zero == Int2Q(0)
One == Int2Q(1)
Two == Int2Q(2)
Four == Int2Q(4)
Half == Q(1, 2)

Add(a, b) == Q(a[1] * b[2] + b[1] * a[2], a[2] * b[2])
Sub(a, b) == Q(a[1] * b[2] - b[1] * a[2], a[2] * b[2])
Mul(a, b) == Q(a[1] * b[1], a[2] * b[2])
Div(a, b) == Q(a[1] * b[2], a[2] * b[1])
Neg(a) == << -a[1], a[2] >>
Lt(a, b) == a[1] * b[2] < b[1] * a[2]
Le(a, b) == a[1] * b[2] <= b[1] * a[2]
Gt(a, b) == Lt(b, a)
Ge(a, b) == Le(b, a)
QMin(a, b) == IF Le(a, b) THEN a ELSE b

\* the integer square root of a natural number, by bisection
RECURSIVE ISqrtIn(_, _, _)
ISqrtIn(n, lo, hi) ==
    IF lo >= hi THEN lo
    ELSE CHOOSE root \in { IF mid * mid <= n THEN ISqrtIn(n, mid, hi)
                           ELSE ISqrtIn(n, lo, mid - 1) :
                           mid \in { (lo + hi + 1) \div 2 } } : TRUE

ISqrt(n) == ISqrtIn(n, 0, IF n < 46340 THEN n ELSE 46340)

IsSquare(a) ==
    /\ a[1] >= 0
    /\ ISqrt(a[1]) * ISqrt(a[1]) = a[1]
    /\ ISqrt(a[2]) * ISqrt(a[2]) = a[2]

\* np.sqrt, where the root is rational
Sqrt(a) == << ISqrt(a[1]), ISqrt(a[2]) >>

(***************************************************************************)
(* Optional values: None is the empty sequence, a value v is <<v>>.        *)
(***************************************************************************)
None == << >>
Some(v) == << v >>
IsNone(o) == o = << >>
Unwrap(o) == o[1]

(***************************************************************************)
(* TrajectoryCalculator: the pure parts of its methods.                    *)
(***************************************************************************)
\* TrajectoryPoint
Point(x, y, z, t, vx, vy, vz) ==
    [x |-> x, y |-> y, z |-> z, t |-> t, vx |-> vx, vy |-> vy, vz |-> vz]

\* _find_ground_intersection_time(y0, vy0, g): the quadratic formula on
\* a*t^2 + b*t + c with a = -0.5*g, b = vy0, c = y0
Discriminant(y0, vy0, g) ==
    LET a == Mul(Neg(Half), g)
        b == vy0
        c == y0
    IN  Sub(Mul(b, b), Mul(Mul(Four, a), c))

\* a variant that returns the later of two positive roots
_find_ground_intersection_time_Later(y0, vy0, g) ==
    LET a == Mul(Neg(Half), g)
        b == vy0
        discriminant == Discriminant(y0, vy0, g)
    IN  IF Lt(discriminant, Zero) THEN None
        ELSE LET t1 == Div(Add(Neg(b), Sqrt(discriminant)), Mul(Two, a))
                 t2 == Div(Sub(Neg(b), Sqrt(discriminant)), Mul(Two, a))
             IN  IF Gt(t1, Zero) /\ Gt(t2, Zero)
                 THEN Some(IF Le(t1, t2) THEN t2 ELSE t1)
                 ELSE IF Gt(t1, Zero) THEN Some(t1)
                 ELSE IF Gt(t2, Zero) THEN Some(t2)
                 ELSE None

_find_ground_intersection_time(y0, vy0, g) ==
    LET a == Mul(Neg(Half), g)
        b == vy0
        discriminant == Discriminant(y0, vy0, g)
    IN  IF Lt(discriminant, Zero) THEN None
        ELSE LET t1 == Div(Add(Neg(b), Sqrt(discriminant)), Mul(Two, a))
                 t2 == Div(Sub(Neg(b), Sqrt(discriminant)), Mul(Two, a))
             IN  IF Gt(t1, Zero) /\ Gt(t2, Zero) THEN Some(QMin(t1, t2))
                 ELSE IF Gt(t1, Zero) THEN Some(t1)
                 ELSE IF Gt(t2, Zero) THEN Some(t2)
                 ELSE None

\* the calls of _find_ground_intersection_time whose np.sqrt is exact
ExactRoots(y0, vy0, g) ==
    IF Lt(Discriminant(y0, vy0, g), Zero) THEN TRUE
    ELSE IsSquare(Discriminant(y0, vy0, g))

\* calculate_trajectory, loop body: position and velocity at time t
SampledPoint(g, initial_position, initial_velocity, time) ==
    LET x0 == initial_position[1]
        y0 == initial_position[2]
        z0 == initial_position[3]
        vx0 == initial_velocity[1]
        vy0 == initial_velocity[2]
        vz0 == initial_velocity[3]
        x == Add(x0, Mul(vx0, time))
        y == Sub(Add(y0, Mul(vy0, time)), Mul(Mul(Mul(Half, g), time), time))
        z == Add(z0, Mul(vz0, time))
        vx == vx0
        vy == Sub(vy0, Mul(g, time))
        vz == vz0
    IN  Point(x, y, z, time, vx, vy, vz)

\* a variant of the loop condition that leaves out t = max_time
LoopCondition_Strict(time, max_time) == Lt(time, max_time)

\* calculate_trajectory: the loop condition, while t <= max_time
LoopCondition(time, max_time) == Le(time, max_time)

\* variants of the ground-stop test: the comparison inverted; the t > 0
\* guard dropped
HitGround_Inverted(stop_at_ground, y, time) ==
    stop_at_ground /\ Gt(y, Zero) /\ Gt(time, Zero)
HitGround_NoTimeGuard(stop_at_ground, y, time) ==
    stop_at_ground /\ Lt(y, Zero)

\* calculate_trajectory: the ground-stop test of the loop
HitGround(stop_at_ground, y, time) ==
    stop_at_ground /\ Lt(y, Zero) /\ Gt(time, Zero)

\* a variant of the terminal point with vx and vz exchanged
TerminalPoint_SwappedVelocity(g, initial_position, initial_velocity, tg) ==
    Point(Add(initial_position[1], Mul(initial_velocity[1], tg)),
          Zero,
          Add(initial_position[3], Mul(initial_velocity[3], tg)),
          tg,
          initial_velocity[3],
          Sub(initial_velocity[2], Mul(g, tg)),
          initial_velocity[1])

\* calculate_trajectory: the terminal point at the analytic crossing time
TerminalPoint(g, initial_position, initial_velocity, tg) ==
    LET x0 == initial_position[1]
        z0 == initial_position[3]
        vx0 == initial_velocity[1]
        vy0 == initial_velocity[2]
        vz0 == initial_velocity[3]
        x == Add(x0, Mul(vx0, tg))
        y == Zero
        z == Add(z0, Mul(vz0, tg))
        vx == vx0
        vy == Sub(vy0, Mul(g, tg))
        vz == vz0
    IN  Point(x, y, z, tg, vx, vy, vz)

\* a variant of find_landing_point with the sign of g*t wrong in vy
find_landing_point_VySign(g, initial_position, initial_velocity) ==
    LET t_land == _find_ground_intersection_time(initial_position[2],
                                                 initial_velocity[2], g)
    IN  IF IsNone(t_land) \/ Lt(Unwrap(t_land), Zero) THEN None
        ELSE LET tl == Unwrap(t_land)
             IN  Some(Point(Add(initial_position[1], Mul(initial_velocity[1], tl)),
                            Zero,
                            Add(initial_position[3], Mul(initial_velocity[3], tl)),
                            tl,
                            initial_velocity[1],
                            Add(initial_velocity[2], Mul(g, tl)),
                            initial_velocity[3]))

\* find_landing_point(initial_position, initial_velocity)
find_landing_point(g, initial_position, initial_velocity) ==
    LET x0 == initial_position[1]
        y0 == initial_position[2]
        z0 == initial_position[3]
        vx0 == initial_velocity[1]
        vy0 == initial_velocity[2]
        vz0 == initial_velocity[3]
        t_land == _find_ground_intersection_time(y0, vy0, g)
    IN  IF IsNone(t_land) \/ Lt(Unwrap(t_land), Zero) THEN None
        ELSE LET tl == Unwrap(t_land)
                 x == Add(x0, Mul(vx0, tl))
                 y == Zero
                 z == Add(z0, Mul(vz0, tl))
                 vx == vx0
                 vy == Sub(vy0, Mul(g, tl))
                 vz == vz0
             IN  Some(Point(x, y, z, tl, vx, vy, vz))

\* np.tan(np.radians(launch_angle)) and np.cos(..) * np.cos(..), on the
\* launch angles (degrees) at which both are rational; 23, 37 and 53 stand
\* for atan(5/12) = 22.62, atan(3/4) = 36.87 and atan(4/3) = 53.13 degrees
Angles == { -45, 0, 23, 37, 45, 53, 135, 180 }
Tan(launch_angle) ==
    CASE launch_angle = -45 -> Int2Q(-1)
      [] launch_angle = 0 -> Zero
      [] launch_angle = 23 -> Q(5, 12)
      [] launch_angle = 37 -> Q(3, 4)
      [] launch_angle = 45 -> One
      [] launch_angle = 53 -> Q(4, 3)
      [] launch_angle = 135 -> Int2Q(-1)
      [] launch_angle = 180 -> Zero
CosSquared(launch_angle) ==
    CASE launch_angle = -45 -> Half
      [] launch_angle = 0 -> One
      [] launch_angle = 23 -> Q(144, 169)
      [] launch_angle = 37 -> Q(16, 25)
      [] launch_angle = 45 -> Half
      [] launch_angle = 53 -> Q(9, 25)
      [] launch_angle = 135 -> Half
      [] launch_angle = 180 -> One

\* np.cos(np.radians(angle)) and np.sin(np.radians(angle)), on the angles
\* (degrees) at which both are rational
RationalAngles == { 0, 23, 37, 53, 180 }
Cos(angle) ==
    CASE angle = 0 -> One
      [] angle = 23 -> Q(12, 13)
      [] angle = 37 -> Q(4, 5)
      [] angle = 53 -> Q(3, 5)
      [] angle = 180 -> Int2Q(-1)
Sin(angle) ==
    CASE angle = 0 -> Zero
      [] angle = 23 -> Q(5, 13)
      [] angle = 37 -> Q(3, 5)
      [] angle = 53 -> Q(4, 5)
      [] angle = 180 -> Zero

\* calculate_from_angles_and_speed: the velocity components << vx, vy, vz >>
AnglesToVelocity(speed, pitch_angle, yaw_angle) ==
    LET vx == Mul(Mul(speed, Cos(pitch_angle)), Cos(yaw_angle))
        vy == Mul(speed, Sin(pitch_angle))
        vz == Mul(Mul(speed, Cos(pitch_angle)), Sin(yaw_angle))
    IN  << vx, vy, vz >>

\* a variant of the denominator with delta_y = start_height - target_height
Denominator_SwappedDelta(start_height, horizontal_distance, target_height, launch_angle) ==
    Mul(Mul(Two, CosSquared(launch_angle)),
        Sub(Mul(horizontal_distance, Tan(launch_angle)),
            Sub(start_height, target_height)))

\* calculate_required_velocity_2d: the denominator of v0^2
Denominator(start_height, horizontal_distance, target_height, launch_angle) ==
    LET delta_y == Sub(target_height, start_height)
        tan_angle == Tan(launch_angle)
    IN  Mul(Mul(Two, CosSquared(launch_angle)),
            Sub(Mul(horizontal_distance, tan_angle), delta_y))

\* calculate_required_velocity_2d: v0^2 (for a denominator other than 0)
V0Squared(g, start_height, horizontal_distance, target_height, launch_angle) ==
    LET denominator == Denominator(start_height, horizontal_distance,
                                   target_height, launch_angle)
        numerator == Mul(Mul(g, horizontal_distance), horizontal_distance)
    IN  Div(numerator, denominator)

calculate_required_velocity_2d(g, start_height, horizontal_distance, target_height, launch_angle) ==
    LET denominator == Denominator(start_height, horizontal_distance,
                                   target_height, launch_angle)
        v0_squared == V0Squared(g, start_height, horizontal_distance,
                                target_height, launch_angle)
    IN  IF Le(denominator, Zero) THEN None
        ELSE IF Lt(v0_squared, Zero) THEN None
        ELSE Some(Sqrt(v0_squared))

\* the calls of calculate_required_velocity_2d whose np.sqrt is exact
ExactSpeed(g, start_height, horizontal_distance, target_height, launch_angle) ==
    IF Le(Denominator(start_height, horizontal_distance, target_height,
                      launch_angle), Zero)
    THEN TRUE
    ELSE IsSquare(V0Squared(g, start_height, horizontal_distance,
                            target_height, launch_angle))

(***************************************************************************)
(* calculate_trajectory as one call, and calculate_from_angles_and_speed.  *)
(***************************************************************************)
\* the defaults of calculate_trajectory: time_step = 0.01, max_time = 5.0,
\* stop_at_ground = True
DefaultTimeStep == Q(1, 100)
DefaultMaxTime == Int2Q(5)
DefaultStopAtGround == TRUE

\* calculate_trajectory for time_step > 0: t starts at 0 and grows by
\* time_step, so the k-th iteration (from 0) runs at t = k * time_step
IterationTime(time_step, k) == Mul(Int2Q(k), time_step)

\* the k-th iteration appends no sample: the loop condition fails, or the
\* ground-stop test holds
StopsAt(g, initial_position, initial_velocity, time_step, max_time, stop_at_ground, k) ==
    LET time == IterationTime(time_step, k)
    IN  IF ~ LoopCondition(time, max_time) THEN TRUE
        ELSE HitGround(stop_at_ground,
                       SampledPoint(g, initial_position, initial_velocity, time).y,
                       time)

\* the first iteration that appends no sample; the iteration numbered
\* beyond fails the loop condition
FirstStop(g, initial_position, initial_velocity, time_step, max_time, stop_at_ground, beyond) ==
    CHOOSE k \in 0 .. beyond :
        /\ StopsAt(g, initial_position, initial_velocity, time_step, max_time,
                   stop_at_ground, k)
        /\ \A j \in 0 .. k - 1 :
               ~ StopsAt(g, initial_position, initial_velocity, time_step,
                         max_time, stop_at_ground, j)

\* the samples appended by the iterations lo .. hi
RECURSIVE Samples(_, _, _, _, _, _)
Samples(g, initial_position, initial_velocity, time_step, lo, hi) ==
    IF lo > hi THEN << >>
    ELSE IF lo = hi
    THEN << SampledPoint(g, initial_position, initial_velocity,
                         IterationTime(time_step, lo)) >>
    ELSE LET mid == (lo + hi) \div 2
         IN  Samples(g, initial_position, initial_velocity, time_step, lo, mid)
                 \o Samples(g, initial_position, initial_velocity, time_step,
                            mid + 1, hi)

\* the ground stop: the terminal point is appended if the root exists
GroundStop(g, initial_position, initial_velocity, t_ground) ==
    IF IsNone(t_ground) THEN << >>
    ELSE << TerminalPoint(g, initial_position, initial_velocity, Unwrap(t_ground)) >>

\* the list returned when the k-th iteration is the first that appends no
\* sample: the samples before it, then the terminal point if that iteration
\* is a ground stop
TrajectoryThrough(g, initial_position, initial_velocity, time_step, max_time, k) ==
    Samples(g, initial_position, initial_velocity, time_step, 0, k - 1)
        \o (IF ~ LoopCondition(IterationTime(time_step, k), max_time) THEN << >>
            ELSE GroundStop(g, initial_position, initial_velocity,
                            _find_ground_intersection_time(initial_position[2],
                                                           initial_velocity[2], g)))

\* calculate_trajectory(initial_position, initial_velocity, time_step,
\* max_time, stop_at_ground) as one call, time_step > 0
calculate_trajectory(g, initial_position, initial_velocity, time_step, max_time, stop_at_ground) ==
    TrajectoryThrough(g, initial_position, initial_velocity, time_step, max_time,
                      FirstStop(g, initial_position, initial_velocity, time_step,
                                max_time, stop_at_ground,
                                IF Lt(max_time, Zero) THEN 0
                                ELSE (Div(max_time, time_step)[1]
                                          \div Div(max_time, time_step)[2]) + 1))

\* calculate_from_angles_and_speed with no keyword arguments
calculate_from_angles_and_speed(g, initial_position, speed, pitch_angle, yaw_angle) ==
    calculate_trajectory(g, initial_position,
                         AnglesToVelocity(speed, pitch_angle, yaw_angle),
                         DefaultTimeStep, DefaultMaxTime, DefaultStopAtGround)

(***************************************************************************)
(* TrajectoryOptimizer: the pure parts of its methods.                     *)
(***************************************************************************)
\* float('inf'): above every rational under Lt and Le
Infinity == << 1, 0 >>

\* FORCE_THRESHOLDS, in the order of the dict: << rating, min_vel, max_vel >>
FORCE_THRESHOLDS ==
    << << "Very Low", Int2Q(0), Int2Q(15) >>,
       << "Low", Int2Q(15), Int2Q(20) >>,
       << "Medium-Low", Int2Q(20), Int2Q(25) >>,
       << "Medium", Int2Q(25), Int2Q(30) >>,
       << "Medium-High", Int2Q(30), Int2Q(35) >>,
       << "High", Int2Q(35), Int2Q(45) >>,
       << "Very High", Int2Q(45), Infinity >> >>

\* a variant of the bin test, open below and closed above
InBin_ClosedAbove(velocity, min_vel, max_vel) ==
    Lt(min_vel, velocity) /\ Le(velocity, max_vel)

\* _get_force_rating: min_vel <= velocity < max_vel
InBin(velocity, min_vel, max_vel) ==
    Le(min_vel, velocity) /\ Lt(velocity, max_vel)

\* _get_force_rating: the for loop from the i-th entry on, then the final
\* return "Very High"
RECURSIVE ForceRatingFrom(_, _)
ForceRatingFrom(velocity, i) ==
    IF i > Len(FORCE_THRESHOLDS) THEN "Very High"
    ELSE IF InBin(velocity, FORCE_THRESHOLDS[i][2], FORCE_THRESHOLDS[i][3])
         THEN FORCE_THRESHOLDS[i][1]
         ELSE ForceRatingFrom(velocity, i + 1)

_get_force_rating(velocity) == ForceRatingFrom(velocity, 1)

\* A success probability is kept exactly: [exp |-> FALSE, q |-> c] is the
\* rational c, and [exp |-> TRUE, q |-> x], x # 0, is 0.95 / (1 + e^x),
\* a value strictly between 0 and 0.95 that decreases as x grows; np.exp(0)
\* is 1, so x = 0 gives the rational 0.475.
MaxProbability == Q(95, 100)
Exact(c) == [ exp |-> FALSE, q |-> c ]
Logistic(x) ==
    IF x = Zero THEN Exact(Div(MaxProbability, Two))
    ELSE [ exp |-> TRUE, q |-> x ]

\* p <= r on success probabilities; a rational is compared with a value
\* 0.95 / (1 + e^x) where the sign of x or the range (0, 0.95) decides
ProbLe(p, r) ==
    CASE ~ p.exp /\ ~ r.exp -> Le(p.q, r.q)
      [] p.exp /\ r.exp -> Ge(p.q, r.q)
      [] ~ p.exp /\ r.exp /\ Le(p.q, Zero) -> TRUE
      [] ~ p.exp /\ r.exp /\ Ge(p.q, MaxProbability) -> FALSE
      [] ~ p.exp /\ r.exp /\ p.q = Div(MaxProbability, Two) -> Lt(r.q, Zero)
      [] p.exp /\ ~ r.exp /\ Le(r.q, Zero) -> FALSE
      [] p.exp /\ ~ r.exp /\ Ge(r.q, MaxProbability) -> TRUE
      [] p.exp /\ ~ r.exp /\ r.q = Div(MaxProbability, Two) -> Gt(p.q, Zero)
ProbMax(p, r) == IF ProbLe(p, r) THEN r ELSE p
ProbMin(p, r) == IF ProbLe(p, r) THEN p ELSE r

\* variants of _calculate_success_probability: the exponent negated; the
\* midpoint at twice the hole radius
_calculate_success_probability_Rising(hole_radius, distance_from_hole) ==
    IF Le(distance_from_hole, Zero) THEN Exact(MaxProbability)
    ELSE ProbMax(Exact(Zero),
                 ProbMin(Exact(One),
                         Logistic(Neg(Div(Mul(Int2Q(5), Sub(distance_from_hole, hole_radius)),
                                          hole_radius)))))
_calculate_success_probability_DoubleMidpoint(hole_radius, distance_from_hole) ==
    IF Le(distance_from_hole, Zero) THEN Exact(MaxProbability)
    ELSE ProbMax(Exact(Zero),
                 ProbMin(Exact(One),
                         Logistic(Div(Mul(Int2Q(5), Sub(distance_from_hole,
                                                        Mul(Two, hole_radius))),
                                      Mul(Two, hole_radius)))))

\* _calculate_success_probability(distance_from_hole)
_calculate_success_probability(hole_radius, distance_from_hole) ==
    IF Le(distance_from_hole, Zero) THEN Exact(MaxProbability)
    ELSE LET k == Int2Q(5)
             x0 == hole_radius
             prob == Logistic(Div(Mul(k, Sub(distance_from_hole, x0)), x0))
         IN  ProbMax(Exact(Zero), ProbMin(Exact(One), prob))

\* np.sqrt((landing.x - target_x)**2 + (landing.y - target_y)**2 +
\*         (landing.z - target_z)**2), before and after the root
DistanceSquared(landing, target_position) ==
    LET dx == Sub(landing.x, target_position[1])
        dy == Sub(landing.y, target_position[2])
        dz == Sub(landing.z, target_position[3])
    IN  Add(Add(Mul(dx, dx), Mul(dy, dy)), Mul(dz, dz))
Distance(landing, target_position) ==
    Sqrt(DistanceSquared(landing, target_position))

\* objective_function: 1e10, above every distance of the model, is kept as
\* Infinity
Penalty == Infinity
LandingDistance(trajectory, target_position) ==
    IF trajectory = << >> THEN Penalty
    ELSE Distance(trajectory[Len(trajectory)], target_position)
objective_function(g, throw_position, target_position, params) ==
    LandingDistance(calculate_from_angles_and_speed(g, throw_position, params[1],
                                                    params[2], params[3]),
                    target_position)

\* the evaluations whose np.sqrt is exact: the flight ends on the ground
\* before max_time, at a rational time and a rational distance of the target
ExactObjective(g, throw_position, target_position, params) ==
    LET initial_velocity == AnglesToVelocity(params[1], params[2], params[3])
        landing == find_landing_point(g, throw_position, initial_velocity)
    IN  /\ ExactRoots(throw_position[2], initial_velocity[2], g)
        /\ ~ IsNone(landing)
        /\ Lt(Unwrap(landing).t, DefaultMaxTime)
        /\ IsSquare(DistanceSquared(Unwrap(landing), target_position))

\* variants of the bounds: the caller's velocity_range replaced by the
\* default one
Bounds_DefaultVelocity(velocity_range, angle_range) ==
    << << Int2Q(15), Int2Q(40) >>, angle_range, << -15, 15 >> >>

\* optimize_for_target: bounds = [velocity_range, angle_range, (-15, 15)]
Bounds(velocity_range, angle_range) ==
    << velocity_range, angle_range, << -15, 15 >> >>

\* optimize_for_target: the initial guess x0; np.degrees(np.arctan2(..)) for
\* a target with no lateral offset
InitialGuess(throw_position, target_position, velocity_range) ==
    LET horizontal_distance == Sub(target_position[1], throw_position[1])
    IN  << Div(Add(velocity_range[1], velocity_range[2]), Two),
           35,
           IF Lt(horizontal_distance, Zero) THEN 180 ELSE 0 >>

(***************************************************************************)
(* scipy.optimize, the external search: the parameter points it may try    *)
(* are those of a grid at which sine and cosine are rational.  It stays    *)
(* inside its bounds, returns a point of least objective value, depends on *)
(* nothing but its arguments and (when no seed is given) on the global     *)
(* random stream, and raises ValueError on a lower bound above the upper.  *)
(***************************************************************************)
CandidateVelocities == { Int2Q(13), Int2Q(20), Int2Q(26), Int2Q(52) }
CandidatePitches == { 0, 23, 37, 53 }
CandidateYaws == { 0, 23 }

InBox(params, bounds) ==
    /\ Le(bounds[1][1], params[1]) /\ Le(params[1], bounds[1][2])
    /\ bounds[2][1] <= params[2] /\ params[2] <= bounds[2][2]
    /\ bounds[3][1] <= params[3] /\ params[3] <= bounds[3][2]

SearchGrid(bounds) ==
    { params \in CandidateVelocities \X CandidatePitches \X CandidateYaws :
          InBox(params, bounds) }

Reversed(bounds) ==
    \/ Gt(bounds[1][1], bounds[1][2])
    \/ bounds[2][1] > bounds[2][2]
    \/ bounds[3][1] > bounds[3][2]

\* an order on the parameter points
ParamsBefore(a, b) ==
    \/ Lt(a[1], b[1])
    \/ a[1] = b[1] /\ a[2] < b[2]
    \/ a[1] = b[1] /\ a[2] = b[2] /\ a[3] <= b[3]

RECURSIVE InOrder(_)
InOrder(S) ==
    IF S = { } THEN << >>
    ELSE LET first == CHOOSE a \in S : \A b \in S : ParamsBefore(a, b)
         IN  << first >> \o InOrder(S \ { first })

\* the objective evaluated on the points of a sequence: << params, value >>
RECURSIVE Evaluations(_, _, _, _, _)
Evaluations(g, throw_position, target_position, points, i) ==
    IF i > Len(points) THEN << >>
    ELSE << << points[i],
               objective_function(g, throw_position, target_position, points[i]) >> >>
         \o Evaluations(g, throw_position, target_position, points, i + 1)

\* the points of least objective value, in order
Minimisers(evaluations) ==
    InOrder({ evaluations[i][1] : i \in
                { i \in 1 .. Len(evaluations) :
                    \A j \in 1 .. Len(evaluations) :
                        Le(evaluations[i][2], evaluations[j][2]) } })

\* differential_evolution(objective_function, bounds, seed): the random
\* stream is the seed's when a seed is given, the global one otherwise
differential_evolution(evaluations, seed, stream) ==
    LET best == Minimisers(evaluations)
        entropy == IF IsNone(seed) THEN stream ELSE Unwrap(seed)
    IN  best[(entropy % Len(best)) + 1]

\* minimize(objective_function, x0, bounds, method='L-BFGS-B'): of the best
\* points, one with the pitch nearest to the initial guess
minimize(evaluations, x0) ==
    LET best == Minimisers(evaluations)
        nearest == { i \in 1 .. Len(best) :
                       \A j \in 1 .. Len(best) :
                           Abs(best[i][2] - x0[2]) <= Abs(best[j][2] - x0[2]) }
    IN  best[CHOOSE i \in nearest : \A j \in nearest : i <= j]

\* variants of the seed passed to differential_evolution: none
Seed_None == None

\* optimize_for_target: seed=42
Seed == Some(42)

\* ft/s to mph
MphPerFps == Q(681818, 1000000)

\* optimize_for_target: the ThrowRecommendation returned
ThrowRecommendation(hole_radius, x, trajectory, landing, distance_from_target) ==
    [ velocity |-> x[1],
      velocity_mph |-> Mul(x[1], MphPerFps),
      pitch_angle |-> x[2],
      yaw_angle |-> x[3],
      force_rating |-> _get_force_rating(x[1]),
      trajectory |-> trajectory,
      landing_point |-> landing,
      distance_from_hole |-> distance_from_target,
      success_probability |-> _calculate_success_probability(hole_radius,
                                                             distance_from_target) ]

\* variants of the end of optimize_for_target: the landing point taken at
\* the start of the trajectory; a poor result raised instead of returned
Landed_FirstPoint(hole_radius, target_position, x, trajectory) ==
    IF trajectory = << >> THEN None
    ELSE Some(ThrowRecommendation(hole_radius, x, trajectory, trajectory[1],
                                  Distance(trajectory[1], target_position)))
Landed_RejectsFar(hole_radius, target_position, x, trajectory) ==
    IF trajectory = << >> THEN None
    ELSE IF Gt(Distance(trajectory[Len(trajectory)], target_position), hole_radius)
    THEN None
    ELSE Some(ThrowRecommendation(hole_radius, x, trajectory,
                                  trajectory[Len(trajectory)],
                                  Distance(trajectory[Len(trajectory)],
                                           target_position)))

\* optimize_for_target, from the final simulation on; None stands for the
\* IndexError of trajectory[-1]
Landed(hole_radius, target_position, x, trajectory) ==
    IF trajectory = << >> THEN None
    ELSE Some(ThrowRecommendation(hole_radius, x, trajectory,
                                  trajectory[Len(trajectory)],
                                  Distance(trajectory[Len(trajectory)],
                                           target_position)))

\* optimize_for_target, from opt_velocity, opt_pitch, opt_yaw = result.x on;
\* None stands for the ValueError of the unpacking too
Recommendation(g, hole_radius, throw_position, target_position, x) ==
    IF Len(x) # 3 THEN None
    ELSE Landed(hole_radius, target_position, x,
                calculate_from_angles_and_speed(g, throw_position, x[1], x[2], x[3]))

\* the calls of optimize_for_target whose every square root is exact
ExactSearch(g, throw_position, target_position, velocity_range, angle_range) ==
    \A params \in SearchGrid(Bounds(velocity_range, angle_range)) :
        ExactObjective(g, throw_position, target_position, params)

\* optimize_for_target: the call of the search, by method
Search(method, evaluations, x0, stream) ==
    IF method = "differential_evolution"
    THEN differential_evolution(evaluations, Seed, stream)
    ELSE minimize(evaluations, x0)

\* optimize_for_target(throw_position, target_position, velocity_range,
\* angle_range, method): the recommendation, or None when the call raises;
\* fails says that the external search raises, stream is the position of
\* the global random stream
optimize_for_target(g, hole_radius, throw_position, target_position, velocity_range, angle_range, method, fails, stream) ==
    IF fails \/ Reversed(Bounds(velocity_range, angle_range)) THEN None
    ELSE Recommendation(g, hole_radius, throw_position, target_position,
                        Search(method,
                               Evaluations(g, throw_position, target_position,
                                           InOrder(SearchGrid(Bounds(velocity_range,
                                                                     angle_range))),
                                           1),
                               InitialGuess(throw_position, target_position,
                                            velocity_range),
                               stream))

(***************************************************************************)
(* optimize_for_cornhole_board.                                            *)
(***************************************************************************)
STANDARD_BOARD_LENGTH == Int2Q(4)
STANDARD_BOARD_HEIGHT_BACK == Int2Q(1)

\* hole_distance_from_front = STANDARD_BOARD_LENGTH - (9.0 / 12.0)
hole_distance_from_front == Sub(STANDARD_BOARD_LENGTH, Q(9, 12))

\* if board_angle == 0.0: board_angle = degrees(arctan(HEIGHT_BACK / LENGTH));
\* the angle is kept by its tangent
BoardSlope(board_angle) ==
    IF board_angle = 0 THEN Div(STANDARD_BOARD_HEIGHT_BACK, STANDARD_BOARD_LENGTH)
    ELSE Tan(board_angle)

\* variant of hole_height: the height of the hole on a board at board_angle
hole_height_OnTiltedBoard(board_angle) ==
    Mul(hole_distance_from_front, BoardSlope(board_angle))

\* hole_height, computed in the scope of board_angle
hole_height(board_angle) ==
    Mul(Div(hole_distance_from_front, STANDARD_BOARD_LENGTH),
        STANDARD_BOARD_HEIGHT_BACK)

\* variant of throw_pos: the lateral offset dropped
throw_pos_Centered(throw_height, lateral_offset) ==
    << Zero, throw_height, Zero >>

\* throw_pos = (0.0, throw_height, lateral_offset)
throw_pos(throw_height, lateral_offset) ==
    << Zero, throw_height, lateral_offset >>

\* target_pos = (throw_distance + hole_distance_from_front, hole_height, 0.0)
target_pos(throw_distance, board_angle) ==
    << Add(throw_distance, hole_distance_from_front), hole_height(board_angle), Zero >>

\* optimize_for_cornhole_board(throw_distance, throw_height, board_angle,
\* lateral_offset, **kwargs)
optimize_for_cornhole_board(g, hole_radius, throw_distance, throw_height, board_angle, lateral_offset, velocity_range, angle_range, method, fails, stream) ==
    optimize_for_target(g, hole_radius,
                        throw_pos(throw_height, lateral_offset),
                        target_pos(throw_distance, board_angle),
                        velocity_range, angle_range, method, fails, stream)

\* generate_multiple_solutions: angle_ranges, and the defaults of
\* optimize_for_target it relies on
angle_ranges == << << 15, 30 >>, << 30, 45 >>, << 45, 60 >> >>
DefaultVelocityRange == << Int2Q(15), Int2Q(40) >>
DefaultAngleRange == << 15, 60 >>
DefaultMethod == "differential_evolution"

\* the Python slice seq[:n]
SliceTo(seq, n) ==
    LET stop == IF n >= 0 THEN n ELSE Len(seq) + n
    IN  SubSeq(seq, 1, IF stop > Len(seq) THEN Len(seq)
                       ELSE IF stop < 0 THEN 0 ELSE stop)

\* a variant of the order of the sort: ascending
KeepsBefore_Ascending(earlier, later) ==
    ProbLe(earlier.success_probability, later.success_probability)

\* solutions.sort(key=success_probability, reverse=True): an element stays
\* before a later one unless its key is smaller
KeepsBefore(earlier, later) ==
    ProbLe(later.success_probability, earlier.success_probability)

\* the stable sort, by insertion of solutions[i..] into a sorted list
RECURSIVE SortFrom(_, _, _)
SortFrom(solutions, i, sorted) ==
    IF i > Len(solutions) THEN sorted
    ELSE LET k == Cardinality({ j \in 1 .. Len(sorted) :
                                    KeepsBefore(sorted[j], solutions[i]) })
         IN  SortFrom(solutions, i + 1,
                      SubSeq(sorted, 1, k) \o << solutions[i] >>
                          \o SubSeq(sorted, k + 1, Len(sorted)))

\* a variant of the except clause: the failure ends the loop
AfterFailure_Stop(ranges, i) == Len(ranges) + 1

\* generate_multiple_solutions: except Exception: continue
AfterFailure(ranges, i) == i + 1

\* the global random stream after one call of optimize_for_target
StreamAfter(method, stream, period) ==
    IF method = "differential_evolution" /\ IsNone(Seed)
    THEN (stream + 1) % period
    ELSE stream

\* generate_multiple_solutions: the for loop over angle_ranges[:num_solutions]
\* from the i-th range on; failing holds the positions of the sub-ranges at
\* which optimize_for_target raises
RECURSIVE CollectSolutions(_, _, _, _, _, _, _, _, _, _)

\* the body of the loop after optimize_for_target: append, or continue
Attempted(g, hole_radius, throw_position, target_position, ranges, failing, stream, period, i, solutions, solution) ==
    IF IsNone(solution)
    THEN CollectSolutions(g, hole_radius, throw_position, target_position,
                          ranges, failing, stream, period,
                          AfterFailure(ranges, i), solutions)
    ELSE CollectSolutions(g, hole_radius, throw_position, target_position,
                          ranges, failing,
                          StreamAfter(DefaultMethod, stream, period), period,
                          i + 1, Append(solutions, Unwrap(solution)))

CollectSolutions(g, hole_radius, throw_position, target_position, ranges, failing, stream, period, i, solutions) ==
    IF i > Len(ranges) THEN solutions
    ELSE Attempted(g, hole_radius, throw_position, target_position, ranges,
                   failing, stream, period, i, solutions,
                   optimize_for_target(g, hole_radius, throw_position,
                                       target_position, DefaultVelocityRange,
                                       ranges[i], DefaultMethod, i \in failing,
                                       stream))

generate_multiple_solutions(g, hole_radius, throw_position, target_position, num_solutions, failing, stream, period) ==
    SortFrom(CollectSolutions(g, hole_radius, throw_position, target_position,
                              SliceTo(angle_ranges, num_solutions), failing,
                              stream, period, 1, << >>),
             1, << >>)

(***************************************************************************)
(* The inputs of the calls.                                                *)
(***************************************************************************)
\* TrajectoryCalculator(gravity): positive accelerations (ft/s^2)
Gravities == { Int2Q(2), Int2Q(4) }
Heights == { Int2Q(i) : i \in -MaxY0 .. MaxY0 }
VerticalSpeeds == { Int2Q(i) : i \in -MaxVyDown .. MaxVy0 }
\* << <<x0, z0>>, <<vx0, vz0>> >>: downrange and lateral launch state
Horizontals ==
    { << << Int2Q(0), Int2Q(0) >>, << Int2Q(3), Int2Q(0) >> >>,
      << << Int2Q(1), Int2Q(-1) >>, << Int2Q(2), Int2Q(-1) >> >> }
TimeSteps == { Q(k, TimeDen) : k \in 1 .. MaxStepNum }
\* calculate_trajectory is also called with the time steps 0 and -1/TimeDen
LoopTimeSteps == TimeSteps \cup { Zero, Q(-1, TimeDen) }
\* the points that fit into memory: more than any run with a positive time
\* step appends
MaxPoints == MaxTimeNum + 3
MaxTimes == { Q(k, TimeDen) : k \in -1 .. MaxTimeNum }
Distances == { Int2Q(i) : i \in -MaxDist .. MaxDist } \cup { Int2Q(FarTarget) }
TargetHeights == Heights \cup { Int2Q(FarTarget) }

\* TrajectoryOptimizer(calculator, hole_radius): the gravity of its own
\* calculator and the success radius
\* the objects under test: << the calculator's gravity, the optimizer >>;
\* HOLE_SUCCESS_RADIUS is 0.25
Configurations ==
    { << Int2Q(2), [ gravity |-> Int2Q(128), hole_radius |-> Q(1, 4) ] >>,
      << Int2Q(4), [ gravity |-> Int2Q(128), hole_radius |-> Int2Q(1) ] >> }
\* calculate_from_angles_and_speed, called directly
Speeds == { Int2Q(-5), Int2Q(0), Int2Q(5) }
Pitches == { 37, 53 }
\* optimize_for_target and generate_multiple_solutions
ThrowPositions ==
    { << Zero, Zero, Zero >>, << Zero, Int2Q(1), Zero >> }
TargetPositions ==
    { << Int2Q(3), Zero, Zero >>, << Int2Q(4), Zero, Zero >>,
      << Int2Q(FarTarget), Zero, Zero >> }
VelocityRanges ==
    { << Int2Q(15), Int2Q(40) >>, << Int2Q(20), Int2Q(20) >>,
      << Int2Q(25), Int2Q(52) >>, << Int2Q(40), Int2Q(15) >> }
PitchRanges ==
    { << 15, 60 >>, << 15, 30 >>, << 37, 37 >>, << 60, 15 >> }
Methods == { "differential_evolution", "minimize" }
SolutionCounts == -1 .. MaxSolutions
\* optimize_for_cornhole_board: distances to the board's front edge, release
\* heights, lateral offsets and board angles (degrees; 0 is the default)
ThrowDistances == { Int2Q(5), Int2Q(6) }
ThrowHeights == { Zero, One }
LateralOffsets == { Zero, Q(33, 4) }
BoardAngles == { 0, 37, 45 }
\* its kwargs: velocity_range and angle_range
BoardVelocityRanges == { << Int2Q(20), Int2Q(20) >>, << Int2Q(40), Int2Q(15) >> }
BoardPitchRanges == { << 37, 37 >>, << 37, 53 >> }
\* _calculate_success_probability: distances in steps of 0.25 ft
ProbabilityDistances == { Q(k, 4) : k \in -1 .. MaxProbabilityNum }
\* _get_force_rating: speeds in steps of 0.5 ft/s
ForceSpeeds == { Q(k, 2) : k \in -2 .. 2 * MaxForceSpeed }

(***************************************************************************)
(* State.                                                                  *)
(***************************************************************************)
VARIABLES
    gravity,      \* TrajectoryCalculator.gravity
    pc,           \* "idle", "loop" (inside calculate_trajectory), "done", "raised"
    op,           \* the method called last
    args,         \* its arguments
    t,            \* calculate_trajectory: the loop variable t
    trajectory,   \* calculate_trajectory: the list built and returned
    result,       \* the other methods: None before the return, then <<value>>
    optimizer,    \* TrajectoryOptimizer: its calculator's gravity, hole_radius
    rng,          \* draws taken from numpy's global random stream (mod RngPeriod)
    previous,     \* what the first of two identical calls returned
    called,       \* optimize_for_cornhole_board: the arguments of its call of
                  \* optimize_for_target
    other         \* a second thread: the call it made on the same objects
                  \* while calculate_trajectory was running, and its result

optimizer_vars == << optimizer, rng, previous, called, other >>
vars == << gravity, pc, op, args, t, trajectory, result, optimizer, rng, previous, called, other >>

Init ==
    /\ \E configuration \in Configurations :
          /\ gravity = configuration[1]
          /\ optimizer = configuration[2]
    /\ pc = "idle"
    /\ op = "none"
    /\ args = << >>
    /\ t = Zero
    /\ trajectory = << >>
    /\ result = None
    /\ rng = 0
    /\ previous = None
    /\ called = None
    /\ other = None

\* a method is called when no call is in progress
CanCall == pc = "idle"

(***************************************************************************)
(* calculate_trajectory(initial_position, initial_velocity, time_step,     *)
(*                      max_time, stop_at_ground)                          *)
(***************************************************************************)
Call_calculate_trajectory ==
    /\ CanCall
    /\ \E h \in Horizontals, y0 \in Heights, vy0 \in VerticalSpeeds,
          time_step \in LoopTimeSteps, max_time \in MaxTimes,
          stop_at_ground \in BOOLEAN :
          /\ stop_at_ground => ExactRoots(y0, vy0, gravity)
          /\ args' = [ initial_position |-> << h[1][1], y0, h[1][2] >>,
                       initial_velocity |-> << h[2][1], vy0, h[2][2] >>,
                       time_step |-> time_step,
                       max_time |-> max_time,
                       stop_at_ground |-> stop_at_ground ]
    /\ op' = "calculate_trajectory"
    /\ pc' = "loop"
    /\ t' = Zero
    /\ trajectory' = << >>
    /\ result' = None
    /\ UNCHANGED << optimizer_vars, gravity >>

\* the point of the current iteration
Current == SampledPoint(gravity, args.initial_position, args.initial_velocity, t)

\* one iteration that appends the sample and advances t
LoopSample ==
    /\ pc = "loop"
    /\ LoopCondition(t, args.max_time)
    /\ ~ HitGround(args.stop_at_ground, Current.y, t)
    /\ Len(trajectory) < MaxPoints
    /\ trajectory' = Append(trajectory, Current)
    /\ t' = Add(t, args.time_step)
    /\ UNCHANGED << optimizer_vars, gravity, pc, op, args, result >>

\* an iteration whose append finds no memory left: MemoryError
LoopOutOfMemory ==
    /\ pc = "loop"
    /\ LoopCondition(t, args.max_time)
    /\ ~ HitGround(args.stop_at_ground, Current.y, t)
    /\ Len(trajectory) >= MaxPoints
    /\ pc' = "raised"
    /\ UNCHANGED << optimizer_vars, gravity, op, args, t, trajectory, result >>

\* the iteration that finds the ground: the terminal point, break, return
LoopGroundStop ==
    /\ pc = "loop"
    /\ LoopCondition(t, args.max_time)
    /\ HitGround(args.stop_at_ground, Current.y, t)
    /\ \E t_ground \in { _find_ground_intersection_time(
                              args.initial_position[2], args.initial_velocity[2],
                              gravity) } :
          trajectory' =
              IF IsNone(t_ground) THEN trajectory
              ELSE Append(trajectory,
                          TerminalPoint(gravity, args.initial_position,
                                        args.initial_velocity, Unwrap(t_ground)))
    /\ pc' = "done"
    /\ UNCHANGED << optimizer_vars, gravity, op, args, t, result >>

\* the loop condition fails: return
LoopExit ==
    /\ pc = "loop"
    /\ ~ LoopCondition(t, args.max_time)
    /\ pc' = "done"
    /\ UNCHANGED << optimizer_vars, gravity, op, args, t, trajectory, result >>

(***************************************************************************)
(* The closed-form solves, each one step.                                  *)
(***************************************************************************)
\* _find_ground_intersection_time(y0, vy0, g), called directly
Call_find_ground_intersection_time ==
    /\ CanCall
    /\ \E y0 \in Heights, vy0 \in VerticalSpeeds, g \in Gravities :
          /\ ExactRoots(y0, vy0, g)
          /\ args' = [ y0 |-> y0, vy0 |-> vy0, g |-> g ]
          /\ result' = Some(_find_ground_intersection_time(y0, vy0, g))
    /\ op' = "_find_ground_intersection_time"
    /\ pc' = "done"
    /\ UNCHANGED << optimizer_vars, gravity, t, trajectory >>

\* find_landing_point(initial_position, initial_velocity)
Call_find_landing_point ==
    /\ CanCall
    /\ \E h \in Horizontals, y0 \in Heights, vy0 \in VerticalSpeeds :
          /\ ExactRoots(y0, vy0, gravity)
          /\ args' = [ initial_position |-> << h[1][1], y0, h[1][2] >>,
                       initial_velocity |-> << h[2][1], vy0, h[2][2] >> ]
          /\ result' = Some(find_landing_point(gravity,
                                               << h[1][1], y0, h[1][2] >>,
                                               << h[2][1], vy0, h[2][2] >>))
    /\ op' = "find_landing_point"
    /\ pc' = "done"
    /\ UNCHANGED << optimizer_vars, gravity, t, trajectory >>

\* calculate_required_velocity_2d(start_height, horizontal_distance,
\*                                target_height, launch_angle)
Call_calculate_required_velocity_2d ==
    /\ CanCall
    /\ \E start_height \in Heights, horizontal_distance \in Distances,
          target_height \in TargetHeights, launch_angle \in Angles :
          /\ ExactSpeed(gravity, start_height, horizontal_distance,
                        target_height, launch_angle)
          /\ args' = [ start_height |-> start_height,
                       horizontal_distance |-> horizontal_distance,
                       target_height |-> target_height,
                       launch_angle |-> launch_angle ]
          /\ result' = Some(calculate_required_velocity_2d(
                                gravity, start_height, horizontal_distance,
                                target_height, launch_angle))
    /\ op' = "calculate_required_velocity_2d"
    /\ pc' = "done"
    /\ UNCHANGED << optimizer_vars, gravity, t, trajectory >>

(***************************************************************************)
(* calculate_from_angles_and_speed(initial_position, speed, pitch_angle,   *)
(*                                 yaw_angle, **kwargs), called directly   *)
(***************************************************************************)
Call_calculate_from_angles_and_speed ==
    /\ CanCall
    /\ \E y0 \in Heights, speed \in Speeds, pitch_angle \in Pitches,
          time_step \in TimeSteps, max_time \in MaxTimes,
          stop_at_ground \in BOOLEAN :
          LET initial_velocity == AnglesToVelocity(speed, pitch_angle, 0)
          IN  /\ stop_at_ground => ExactRoots(y0, initial_velocity[2], gravity)
              /\ args' = [ initial_position |-> << Zero, y0, Zero >>,
                           speed |-> speed,
                           pitch_angle |-> pitch_angle,
                           yaw_angle |-> 0,
                           initial_velocity |-> initial_velocity,
                           time_step |-> time_step,
                           max_time |-> max_time,
                           stop_at_ground |-> stop_at_ground ]
    /\ op' = "calculate_from_angles_and_speed"
    /\ pc' = "loop"
    /\ t' = Zero
    /\ trajectory' = << >>
    /\ result' = None
    /\ UNCHANGED << optimizer_vars, gravity >>

(***************************************************************************)
(* TrajectoryOptimizer.                                                    *)
(***************************************************************************)
\* optimize_for_target(throw_position, target_position, velocity_range,
\*                     angle_range, method)
Call_optimize_for_target ==
    /\ CanCall
    /\ \E throw_position \in ThrowPositions, target_position \in TargetPositions,
          velocity_range \in VelocityRanges, angle_range \in PitchRanges,
          method \in Methods, fails \in BOOLEAN :
          /\ IF fails THEN TRUE
             ELSE ExactSearch(optimizer.gravity, throw_position, target_position,
                              velocity_range, angle_range)
          /\ args' = [ throw_position |-> throw_position,
                       target_position |-> target_position,
                       velocity_range |-> velocity_range,
                       angle_range |-> angle_range,
                       method |-> method,
                       fails |-> fails ]
          /\ result' = optimize_for_target(
                           optimizer.gravity, optimizer.hole_radius,
                           throw_position, target_position, velocity_range,
                           angle_range, method, fails, rng)
          /\ pc' = IF IsNone(result') THEN "raised" ELSE "done"
          /\ rng' = IF fails THEN rng ELSE StreamAfter(method, rng, RngPeriod)
    /\ op' = "optimize_for_target"
    /\ previous' = None
    /\ UNCHANGED << optimizer, called, other, gravity, t, trajectory >>

\* the caller repeats a returned call of optimize_for_target with the same
\* arguments; previous keeps what the first call returned
Repeat_optimize_for_target ==
    /\ pc = "done"
    /\ op = "optimize_for_target"
    /\ IsNone(previous)
    /\ result' = optimize_for_target(
                     optimizer.gravity, optimizer.hole_radius,
                     args.throw_position, args.target_position,
                     args.velocity_range, args.angle_range, args.method,
                     args.fails, rng)
    /\ pc' = IF IsNone(result') THEN "raised" ELSE "done"
    /\ rng' = StreamAfter(args.method, rng, RngPeriod)
    /\ previous' = result
    /\ UNCHANGED << optimizer, called, other, gravity, op, args, t, trajectory >>

\* optimize_for_cornhole_board(throw_distance, throw_height, board_angle,
\* lateral_offset, velocity_range, angle_range, method)
Call_optimize_for_cornhole_board ==
    /\ CanCall
    /\ \E throw_distance \in ThrowDistances, throw_height \in ThrowHeights,
          board_angle \in BoardAngles, lateral_offset \in LateralOffsets,
          velocity_range \in BoardVelocityRanges, angle_range \in BoardPitchRanges,
          method \in Methods, fails \in BOOLEAN :
          /\ IF fails THEN TRUE
             ELSE ExactSearch(optimizer.gravity,
                              throw_pos(throw_height, lateral_offset),
                              target_pos(throw_distance, board_angle),
                              velocity_range, angle_range)
          /\ args' = [ throw_distance |-> throw_distance,
                       throw_height |-> throw_height,
                       board_angle |-> board_angle,
                       lateral_offset |-> lateral_offset,
                       velocity_range |-> velocity_range,
                       angle_range |-> angle_range,
                       method |-> method,
                       fails |-> fails ]
          /\ called' = Some([ throw_position |-> throw_pos(throw_height, lateral_offset),
                              target_position |-> target_pos(throw_distance, board_angle),
                              velocity_range |-> velocity_range,
                              angle_range |-> angle_range,
                              method |-> method ])
          /\ result' = optimize_for_cornhole_board(
                           optimizer.gravity, optimizer.hole_radius,
                           throw_distance, throw_height, board_angle,
                           lateral_offset, velocity_range, angle_range, method,
                           fails, rng)
          /\ pc' = IF IsNone(result') THEN "raised" ELSE "done"
          /\ rng' = IF fails THEN rng ELSE StreamAfter(method, rng, RngPeriod)
    /\ op' = "optimize_for_cornhole_board"
    /\ previous' = None
    /\ UNCHANGED << optimizer, other, gravity, t, trajectory >>

\* generate_multiple_solutions(throw_position, target_position, num_solutions)
Call_generate_multiple_solutions ==
    /\ CanCall
    /\ \E throw_position \in ThrowPositions, target_position \in TargetPositions,
          num_solutions \in SolutionCounts, failing \in SUBSET (1 .. Len(angle_ranges)) :
          /\ \A i \in 1 .. Len(angle_ranges) :
                ExactSearch(optimizer.gravity, throw_position, target_position,
                            DefaultVelocityRange, angle_ranges[i])
          /\ args' = [ throw_position |-> throw_position,
                       target_position |-> target_position,
                       num_solutions |-> num_solutions,
                       failing |-> failing ]
          /\ result' = Some(generate_multiple_solutions(
                                optimizer.gravity, optimizer.hole_radius,
                                throw_position, target_position, num_solutions,
                                failing, rng, RngPeriod))
          /\ rng' = IF IsNone(Seed)
                    THEN (rng + Len(Unwrap(result'))) % RngPeriod
                    ELSE rng
    /\ op' = "generate_multiple_solutions"
    /\ pc' = "done"
    /\ previous' = None
    /\ UNCHANGED << optimizer, called, other, gravity, t, trajectory >>

\* _calculate_success_probability(distance_from_hole)
Call_calculate_success_probability ==
    /\ CanCall
    /\ \E distance_from_hole \in ProbabilityDistances :
          /\ args' = [ distance_from_hole |-> distance_from_hole ]
          /\ result' = Some(_calculate_success_probability(optimizer.hole_radius,
                                                           distance_from_hole))
    /\ op' = "_calculate_success_probability"
    /\ pc' = "done"
    /\ UNCHANGED << optimizer_vars, gravity, t, trajectory >>

\* _get_force_rating(velocity)
Call_get_force_rating ==
    /\ CanCall
    /\ \E velocity \in ForceSpeeds :
          /\ args' = [ velocity |-> velocity ]
          /\ result' = Some(_get_force_rating(velocity))
    /\ op' = "_get_force_rating"
    /\ pc' = "done"
    /\ UNCHANGED << optimizer_vars, gravity, t, trajectory >>

\* the caller takes the returned value; the calculator keeps only gravity
(***************************************************************************)
(* A second thread calls a method on the same calculator while             *)
(* calculate_trajectory is between two iterations of its loop.             *)
(***************************************************************************)
\* calculate_required_velocity_2d of the second thread: its arguments
ConcurrentDistances == { Int2Q(1), Int2Q(2) }

\* variant: a find_landing_point that writes self.gravity
Concurrent_find_landing_point_Writing ==
    /\ pc = "loop"
    /\ IsNone(other)
    /\ ExactRoots(args.initial_position[2], args.initial_velocity[2], gravity)
    /\ other' = Some([ op |-> "find_landing_point",
                       args |-> << args.initial_position, args.initial_velocity >>,
                       result |-> find_landing_point(gravity, args.initial_position,
                                                     args.initial_velocity) ])
    /\ gravity' = Add(gravity, gravity)
    /\ UNCHANGED << pc, op, args, t, trajectory, result, optimizer, rng,
                    previous, called >>

\* find_landing_point(initial_position, initial_velocity) on the launch
\* state of the running call
Concurrent_find_landing_point ==
    /\ pc = "loop"
    /\ IsNone(other)
    /\ ExactRoots(args.initial_position[2], args.initial_velocity[2], gravity)
    /\ other' = Some([ op |-> "find_landing_point",
                       args |-> << args.initial_position, args.initial_velocity >>,
                       result |-> find_landing_point(gravity, args.initial_position,
                                                     args.initial_velocity) ])
    /\ UNCHANGED << gravity, pc, op, args, t, trajectory, result, optimizer, rng,
                    previous, called >>

\* calculate_required_velocity_2d(0, horizontal_distance, 0, 45)
Concurrent_calculate_required_velocity_2d ==
    /\ pc = "loop"
    /\ IsNone(other)
    /\ \E horizontal_distance \in ConcurrentDistances :
          /\ ExactSpeed(gravity, Zero, horizontal_distance, Zero, 45)
          /\ other' = Some([ op |-> "calculate_required_velocity_2d",
                             args |-> << Zero, horizontal_distance, Zero, 45 >>,
                             result |-> calculate_required_velocity_2d(
                                            gravity, Zero, horizontal_distance,
                                            Zero, 45) ])
    /\ UNCHANGED << gravity, pc, op, args, t, trajectory, result, optimizer, rng,
                    previous, called >>

Return ==
    /\ pc \in { "done", "raised" }
    /\ pc' = "idle"
    /\ op' = "none"
    /\ args' = << >>
    /\ t' = Zero
    /\ trajectory' = << >>
    /\ result' = None
    /\ previous' = None
    /\ called' = None
    /\ other' = None
    /\ UNCHANGED << optimizer, rng, gravity >>

Next ==
    \/ Call_calculate_trajectory
    \/ LoopSample
    \/ LoopOutOfMemory
    \/ LoopGroundStop
    \/ LoopExit
    \/ Call_find_ground_intersection_time
    \/ Call_find_landing_point
    \/ Call_calculate_required_velocity_2d
    \/ Call_calculate_from_angles_and_speed
    \/ Call_optimize_for_target
    \/ Repeat_optimize_for_target
    \/ Call_optimize_for_cornhole_board
    \/ Call_generate_multiple_solutions
    \/ Call_calculate_success_probability
    \/ Call_get_force_rating
    \/ Return

Spec == Init /\ [][Next]_vars

\* a call in progress keeps running: the thread inside calculate_trajectory
\* executes its next iteration, its break or its return
\* the calls of Next, and the calls of a second thread in between
ConcurrentNext ==
    \/ Next
    \/ Concurrent_find_landing_point
    \/ Concurrent_calculate_required_velocity_2d

ConcurrentSpec == Init /\ [][ConcurrentNext]_vars

LoopStep == LoopSample \/ LoopOutOfMemory \/ LoopGroundStop \/ LoopExit
FairSpec == Spec /\ WF_vars(LoopStep)

(***************************************************************************)
(* Vocabulary of the properties.  The closed forms are written here from   *)
(* the equations of motion, not from the definitions above.                *)
(***************************************************************************)
\* calculate_trajectory has returned
TrajReturned == pc = "done" /\ op = "calculate_trajectory"
\* ... through the break of the ground stop (LoopExit leaves t > max_time)
GroundStopped == TrajReturned /\ Le(t, args.max_time)
Last == trajectory[Len(trajectory)]

\* y(time) = y0 + vy0*time - g*time^2/2
HeightAt(y0, vy0, g, time) ==
    Sub(Add(y0, Mul(vy0, time)), Div(Mul(g, Mul(time, time)), Two))

\* the state of the closed-form path of the current call at a time
PathPoint(time) ==
    [ x |-> Add(args.initial_position[1], Mul(args.initial_velocity[1], time)),
      y |-> HeightAt(args.initial_position[2], args.initial_velocity[2],
                     gravity, time),
      z |-> Add(args.initial_position[3], Mul(args.initial_velocity[3], time)),
      t |-> time,
      vx |-> args.initial_velocity[1],
      vy |-> Sub(args.initial_velocity[2], Mul(gravity, time)),
      vz |-> args.initial_velocity[3] ]

\* the k-th time of the sampling grid, and how many of them are <= max_time
\* (max_time / time_step <= MaxTimeNum, as time_step >= 1/TimeDen)
GridTime(k) == Mul(Int2Q(k), args.time_step)
GridIndices == { k \in 0 .. MaxTimeNum : Le(GridTime(k), args.max_time) }

\* a sampled height at a grid time t > 0 is below 0
SampleBelowGround ==
    \E k \in GridIndices :
        k > 0 /\ Lt(HeightAt(args.initial_position[2], args.initial_velocity[2],
                             gravity, GridTime(k)), Zero)

\* the path is below 0 at some time in (0, max_time].  The height is concave
\* in t, so it is negative somewhere on (0, max_time] exactly when it is
\* negative at max_time or just after 0 (y0 < 0; y0 = 0 with vy0 <= 0 is
\* negative at max_time too).
PathGoesBelowGround ==
    /\ Gt(args.max_time, Zero)
    /\ \/ Lt(HeightAt(args.initial_position[2], args.initial_velocity[2],
                      gravity, args.max_time), Zero)
       \/ Lt(args.initial_position[2], Zero)

\* the strictly positive roots of y0 + vy0*t - g*t^2/2.  With y0, vy0 and g
\* integers, the roots (vy0 +- sqrt(vy0^2 + 2*g*y0)) / g are k/g for integers
\* k with |k| <= 2*|vy0| + 2*g*|y0|.
RootCandidates(y0, vy0, g) ==
    LET K == 2 * Abs(vy0[1]) + 2 * g[1] * Abs(y0[1])
    IN  { Div(Int2Q(k), g) : k \in -K .. K }

PositiveRoots(y0, vy0, g) ==
    { r \in RootCandidates(y0, vy0, g) :
          Gt(r, Zero) /\ HeightAt(y0, vy0, g, r) = Zero }

\* the ground stop triggers: stop_at_ground and a sample below 0
GroundStopTriggers == args.stop_at_ground /\ SampleBelowGround

\* the returned points are the closed-form samples at the grid times <= max_time
GridSamples ==
    /\ Len(trajectory) = Cardinality(GridIndices)
    /\ \A i \in 1 .. Len(trajectory) : trajectory[i] = PathPoint(GridTime(i - 1))

(***************************************************************************)
(* C1.  With stop_at_ground, if the closed-form path goes below 0 at some  *)
(* time in (0, max_time], the last returned point has y = 0 and t equal to *)
(* the root returned by _find_ground_intersection_time.                    *)
(***************************************************************************)
C1_EndsAtAnalyticRoot ==
    (TrajReturned /\ args.stop_at_ground /\ PathGoesBelowGround) =>
        /\ Len(trajectory) > 0
        /\ Last.y = Zero
        /\ Some(Last.t) = _find_ground_intersection_time(
                              args.initial_position[2],
                              args.initial_velocity[2], gravity)

(***************************************************************************)
(* C2.  With stop_at_ground, no returned point has a negative height.      *)
(***************************************************************************)
C2_NoNegativeHeight ==
    (TrajReturned /\ args.stop_at_ground) =>
        \A i \in 1 .. Len(trajectory) : Ge(trajectory[i].y, Zero)

\* C2 as amended: with stop_at_ground, every returned point after the first
\* has y >= 0; the first point (t = 0) carries the initial height y0, also
\* when y0 < 0.
C2_NoNegativeHeightAfterLaunch ==
    (TrajReturned /\ args.stop_at_ground) =>
        /\ \A i \in 2 .. Len(trajectory) : Ge(trajectory[i].y, Zero)
        /\ Len(trajectory) > 0 => trajectory[1].y = args.initial_position[2]

\* C2, its case: a launch from below the ground that returned points after
\* the first
C2_Witness ==
    /\ TrajReturned
    /\ args.stop_at_ground
    /\ Lt(args.initial_position[2], Zero)
    /\ Len(trajectory) >= 3

(***************************************************************************)
(* C3.  The t values of the returned points are strictly increasing.       *)
(***************************************************************************)
C3_StrictlyIncreasingT ==
    TrajReturned =>
        \A i \in 1 .. Len(trajectory) - 1 :
            Lt(trajectory[i].t, trajectory[i + 1].t)

(***************************************************************************)
(* C4.  With max_time >= 0 the first returned point is the launch state at *)
(* t = 0, whatever the initial height and stop_at_ground.                  *)
(***************************************************************************)
C4_FirstPointIsLaunchState ==
    (TrajReturned /\ Ge(args.max_time, Zero)) =>
        /\ Len(trajectory) > 0
        /\ trajectory[1] =
               [ x |-> args.initial_position[1],
                 y |-> args.initial_position[2],
                 z |-> args.initial_position[3],
                 t |-> Zero,
                 vx |-> args.initial_velocity[1],
                 vy |-> args.initial_velocity[2],
                 vz |-> args.initial_velocity[3] ]

\* C4, its case: a returned launch from below the ground with stop_at_ground
C4_Witness ==
    /\ TrajReturned
    /\ args.stop_at_ground
    /\ Ge(args.max_time, Zero)
    /\ Lt(args.initial_position[2], Zero)
    /\ Len(trajectory) > 0

(***************************************************************************)
(* C5.  _find_ground_intersection_time(y0, vy0, g), g > 0, returns None    *)
(* when vy0^2 + 2*g*y0 < 0 and when no root of y0 + vy0*t - g*t^2/2 is     *)
(* strictly positive, and otherwise the smallest strictly positive root.   *)
(* Any returned t is > 0 and is a root.                                    *)
(***************************************************************************)
C5_SmallestPositiveRoot ==
    (pc = "done" /\ op = "_find_ground_intersection_time") =>
        LET returned == Unwrap(result)
            roots == PositiveRoots(args.y0, args.vy0, args.g)
            disc == Add(Mul(args.vy0, args.vy0),
                        Mul(Mul(Two, args.g), args.y0))
        IN  /\ Lt(disc, Zero) => IsNone(returned)
            /\ roots = {} => IsNone(returned)
            /\ roots # {} =>
                   /\ ~ IsNone(returned)
                   /\ Unwrap(returned) \in roots
                   /\ \A r \in roots : Le(Unwrap(returned), r)

\* C5, its case: a call with two distinct strictly positive roots
C5_Witness ==
    /\ pc = "done"
    /\ op = "_find_ground_intersection_time"
    /\ Cardinality(PositiveRoots(args.y0, args.vy0, args.g)) = 2
    /\ ~ IsNone(Unwrap(result))

(***************************************************************************)
(* C6.  When the ground stop does not trigger, calculate_trajectory        *)
(* returns exactly the grid samples t = 0, time_step, 2*time_step, ... up  *)
(* to max_time, and the last point has t = max_time.                       *)
(***************************************************************************)
C6_EndsAtMaxTime ==
    (TrajReturned /\ Gt(args.time_step, Zero) /\ ~ GroundStopTriggers) =>
        /\ GridSamples
        /\ Ge(args.max_time, Zero) =>
               Len(trajectory) > 0 /\ Last.t = args.max_time

\* C6 as amended: when the ground stop does not trigger and time_step > 0,
\* the returned points
\* are exactly the closed-form samples at the grid times k*time_step <=
\* max_time, k = 0, 1, ... (none when max_time < 0); the last point is the
\* sample at the largest such grid time, which is max_time only when max_time
\* is a multiple of time_step.
C6_GridSamplesUpToMaxTime ==
    (TrajReturned /\ Gt(args.time_step, Zero) /\ ~ GroundStopTriggers) =>
        /\ GridSamples
        /\ Ge(args.max_time, Zero) =>
               /\ Len(trajectory) > 0
               /\ Le(Last.t, args.max_time)
               /\ Gt(Add(Last.t, args.time_step), args.max_time)

\* C6, its case: a return without ground stop, the last sample before max_time
C6_Witness ==
    /\ TrajReturned
    /\ ~ GroundStopTriggers
    /\ Len(trajectory) >= 2
    /\ Lt(Last.t, args.max_time)

(***************************************************************************)
(* C7.  Every returned point, sampled or terminal, has vx = vx0 and        *)
(* vz = vz0.                                                               *)
(***************************************************************************)
C7_HorizontalVelocityConstant ==
    TrajReturned =>
        \A i \in 1 .. Len(trajectory) :
            /\ trajectory[i].vx = args.initial_velocity[1]
            /\ trajectory[i].vz = args.initial_velocity[3]

\* C7, its case: a return through the ground stop, with samples and a
\* terminal point
C7_Witness ==
    /\ GroundStopped
    /\ Len(trajectory) >= 3
    /\ Last.y = Zero
    /\ Last.t # trajectory[Len(trajectory) - 1].t
    /\ args.initial_velocity[3] # Zero

(***************************************************************************)
(* C8.  Vertical velocity strictly decreases along the returned points,    *)
(* the pair (last sample, terminal point) included.                        *)
(***************************************************************************)
C8_StrictlyDecreasingVy ==
    TrajReturned =>
        \A i \in 1 .. Len(trajectory) - 1 :
            Lt(trajectory[i + 1].vy, trajectory[i].vy)

(***************************************************************************)
(* C9.  find_landing_point returns None exactly when                       *)
(* _find_ground_intersection_time(y0, vy0, gravity) does; otherwise the    *)
(* point at that time t > 0 with y = 0, x = x0 + vx0*t, z = z0 + vz0*t,    *)
(* vx = vx0, vz = vz0, vy = vy0 - g*t.  It samples no path.                *)
(***************************************************************************)
C9_LandingPointAtRoot ==
    (pc = "done" /\ op = "find_landing_point") =>
        LET returned == Unwrap(result)
            tg == _find_ground_intersection_time(
                      args.initial_position[2], args.initial_velocity[2], gravity)
        IN  /\ IsNone(returned) <=> IsNone(tg)
            /\ ~ IsNone(tg) =>
                   /\ Gt(Unwrap(tg), Zero)
                   /\ returned =
                          Some([ x |-> Add(args.initial_position[1],
                                           Mul(args.initial_velocity[1], Unwrap(tg))),
                                 y |-> Zero,
                                 z |-> Add(args.initial_position[3],
                                           Mul(args.initial_velocity[3], Unwrap(tg))),
                                 t |-> Unwrap(tg),
                                 vx |-> args.initial_velocity[1],
                                 vy |-> Sub(args.initial_velocity[2],
                                            Mul(gravity, Unwrap(tg))),
                                 vz |-> args.initial_velocity[3] ])
            /\ trajectory = << >>

\* C9, its case: a landing point found for a launch with lateral velocity
C9_Witness ==
    /\ pc = "done"
    /\ op = "find_landing_point"
    /\ ~ IsNone(Unwrap(result))
    /\ args.initial_velocity[3] # Zero
    /\ Gt(args.initial_position[2], Zero)

LoopAgreement ==
    (pc = "done" /\ op \in { "calculate_trajectory", "calculate_from_angles_and_speed" })
        => trajectory = calculate_trajectory(gravity, args.initial_position,
                                             args.initial_velocity, args.time_step,
                                             args.max_time, args.stop_at_ground)

(***************************************************************************)
(* C11: the inverse solve and the forward launch agree.                    *)
(***************************************************************************)
\* calculate_required_velocity_2d has returned a speed
SpeedReturned ==
    /\ pc = "done"
    /\ op = "calculate_required_velocity_2d"
    /\ ~IsNone(Unwrap(result))

\* the closed-form path launched from (0, y0, 0) with the velocity v is at
\* x = d, y = h at some time >= 0 (for vx = 0 the path stays on x = 0 and
\* reaches every height up to its apex)
PassesThrough(g, y0, v, d, h) ==
    IF v[1] # Zero
    THEN LET time == Div(d, v[1])
         IN  Ge(time, Zero) /\ HeightAt(y0, v[2], g, time) = h
    ELSE /\ d = Zero
         /\ IF Gt(v[2], Zero)
            THEN Le(h, Add(y0, Div(Mul(v[2], v[2]), Mul(Two, g))))
            ELSE Le(h, y0)

\* the velocity of calculate_from_angles_and_speed((0, start_height, 0),
\* v, launch_angle, 0) for the returned speed v
RoundTripVelocity ==
    AnglesToVelocity(Unwrap(Unwrap(result)), args.launch_angle, 0)

\* C11: whenever calculate_required_velocity_2d returns a speed v (d <= 0
\* included), the path launched from (0, start_height, 0) with speed v,
\* pitch = launch_angle and yaw = 0 passes through x = d, y = target_height
\* at some t >= 0.
C11_RoundTrip ==
    (SpeedReturned /\ args.launch_angle \in RationalAngles)
        => PassesThrough(gravity, args.start_height, RoundTripVelocity,
                         args.horizontal_distance, args.target_height)

\* the same, for the targets on the side the launch points to
C11_RoundTripAhead ==
    (/\ SpeedReturned
     /\ args.launch_angle \in RationalAngles
     /\ Ge(Mul(args.horizontal_distance, Cos(args.launch_angle)), Zero))
        => PassesThrough(gravity, args.start_height, RoundTripVelocity,
                         args.horizontal_distance, args.target_height)

(***************************************************************************)
(* Vocabulary of the optimizer's properties.                               *)
(***************************************************************************)
\* optimize_for_target has returned a ThrowRecommendation
OptimizeReturned == pc = "done" /\ op = "optimize_for_target"
Recommended == Unwrap(result)
RecommendedParams ==
    << Recommended.velocity, Recommended.pitch_angle, Recommended.yaw_angle >>

\* lower bound < upper bound, lower bound > upper bound
Ascending(velocity_range, angle_range) ==
    Lt(velocity_range[1], velocity_range[2]) /\ angle_range[1] < angle_range[2]
Descending(velocity_range, angle_range) ==
    Gt(velocity_range[1], velocity_range[2]) \/ angle_range[1] > angle_range[2]

(***************************************************************************)
(* C12: the recommendation lies in the box of the bounds.                  *)
(***************************************************************************)
\* C12: for both methods, the ThrowRecommendation returned by
\* optimize_for_target has velocity_range[0] <= velocity <= velocity_range[1],
\* angle_range[0] <= pitch_angle <= angle_range[1] and -15 <= yaw_angle <= 15.
C12_RespectsBox ==
    OptimizeReturned =>
        /\ Le(args.velocity_range[1], Recommended.velocity)
        /\ Le(Recommended.velocity, args.velocity_range[2])
        /\ args.angle_range[1] <= Recommended.pitch_angle
        /\ Recommended.pitch_angle <= args.angle_range[2]
        /\ -15 <= Recommended.yaw_angle
        /\ Recommended.yaw_angle <= 15

\* a call with a velocity range of the caller's, narrower than the default,
\* has returned
C12_Witness ==
    /\ OptimizeReturned
    /\ args.method = "minimize"
    /\ args.velocity_range = << Int2Q(25), Int2Q(52) >>
    /\ args.angle_range = << 15, 30 >>
    /\ Recommended.velocity = Int2Q(26)

(***************************************************************************)
(* C13: identical calls return identical recommendations.                  *)
(***************************************************************************)
\* C13: two calls of optimize_for_target with identical arguments on the
\* same optimizer return recommendations equal in every field, and the
\* recommendation is the same at every position the calls made in between
\* can leave the global random stream in.
C13_Deterministic ==
    OptimizeReturned =>
        /\ ~ IsNone(previous) => result = previous
        /\ \A stream \in 0 .. RngPeriod - 1 :
               optimize_for_target(optimizer.gravity, optimizer.hole_radius,
                                   args.throw_position, args.target_position,
                                   args.velocity_range, args.angle_range,
                                   args.method, args.fails, stream) = result

\* the second of two identical calls has returned, in a search with more
\* than one point of least objective value
C13_Witness ==
    /\ OptimizeReturned
    /\ ~ IsNone(previous)
    /\ args.method = "differential_evolution"
    /\ \E params \in SearchGrid(<< args.velocity_range, args.angle_range, << -15, 15 >> >>) :
           /\ params # RecommendedParams
           /\ objective_function(optimizer.gravity, args.throw_position,
                                 args.target_position, params)
                  = Recommended.distance_from_hole

(***************************************************************************)
(* C14: the recommendation agrees with one re-simulation.                  *)
(***************************************************************************)
\* the 3D distance between two points, squared
SquaredDistance3D(point, target_position) ==
    Add(Add(Mul(Sub(point.x, target_position[1]), Sub(point.x, target_position[1])),
            Mul(Sub(point.y, target_position[2]), Sub(point.y, target_position[2]))),
        Mul(Sub(point.z, target_position[3]), Sub(point.z, target_position[3])))

C15_RejectsMinNotBelowMax ==
    (/\ op = "optimize_for_target"
     /\ pc \in { "done", "raised" }
     /\ ~ Ascending(args.velocity_range, args.angle_range))
        => pc = "raised"

(***************************************************************************)
(* C16: negative speed, time_step, max_time.                               *)
(***************************************************************************)
\* C16: calculate_from_angles_and_speed with speed < 0, and
\* calculate_trajectory with time_step < 0 or max_time < 0, signal a caller
\* error and return no trajectory.
C16_RejectsNegativeInputs ==
    (/\ op \in { "calculate_trajectory", "calculate_from_angles_and_speed" }
     /\ \/ Lt(args.time_step, Zero)
        \/ Lt(args.max_time, Zero)
        \/ op = "calculate_from_angles_and_speed" /\ Lt(args.speed, Zero))
        => pc # "done"

(***************************************************************************)
(* C17: a target out of reach.                                             *)
(***************************************************************************)
\* no point of the box lands within hole_radius of the target
OutOfReach ==
    \A params \in SearchGrid(<< args.velocity_range, args.angle_range, << -15, 15 >> >>) :
        Gt(objective_function(optimizer.gravity, args.throw_position,
                              args.target_position, params),
           optimizer.hole_radius)

\* C17: when no parameters in the box land near the target, a call of
\* optimize_for_target with valid bounds whose search raises nothing still
\* returns a ThrowRecommendation, the least-bad point of the box, with a
\* distance_from_hole above hole_radius and a success_probability below
\* half of the maximum.
C17_BestEffortOutOfReach ==
    (/\ op = "optimize_for_target"
     /\ pc \in { "done", "raised" }
     /\ ~ args.fails
     /\ ~ Descending(args.velocity_range, args.angle_range)
     /\ OutOfReach)
        => /\ pc = "done"
           /\ \A params \in SearchGrid(<< args.velocity_range, args.angle_range,
                                         << -15, 15 >> >>) :
                  Le(Recommended.distance_from_hole,
                     objective_function(optimizer.gravity, args.throw_position,
                                        args.target_position, params))
           /\ Gt(Recommended.distance_from_hole, optimizer.hole_radius)
           /\ Recommended.success_probability.exp
           /\ Gt(Recommended.success_probability.q, Zero)

\* the target of test_impossible_target, 100 ft away, has been answered
C17_Witness ==
    /\ OptimizeReturned
    /\ args.target_position = << Int2Q(FarTarget), Zero, Zero >>
    /\ OutOfReach
    /\ Gt(Recommended.distance_from_hole, Int2Q(10))

(***************************************************************************)
(* C18, C19: generate_multiple_solutions.                                  *)
(***************************************************************************)
GenerateReturned == pc = "done" /\ op = "generate_multiple_solutions"
Solutions == Unwrap(result)
\* the sub-ranges attempted: angle_ranges[:num_solutions]
AttemptedRanges == SliceTo(angle_ranges, args.num_solutions)
Succeeding == { i \in 1 .. Len(AttemptedRanges) : i \notin args.failing }

\* C18: generate_multiple_solutions returns whichever sub-ranges raise; the
\* result holds exactly one recommendation per attempted sub-range that did
\* not raise, those after a failing one included, and is the empty list
\* when all of them raise.
C18_OnePerSucceedingRange ==
    GenerateReturned =>
        /\ Len(Solutions) = Cardinality(Succeeding)
        /\ \A i \in Succeeding :
               Cardinality({ j \in 1 .. Len(Solutions) :
                               /\ AttemptedRanges[i][1] <= Solutions[j].pitch_angle
                               /\ Solutions[j].pitch_angle <= AttemptedRanges[i][2] }) = 1
        /\ Succeeding = { } => Solutions = << >>

\* the first sub-range raised and the two after it each gave a solution
C18_Witness ==
    /\ GenerateReturned
    /\ args.num_solutions = 3
    /\ args.failing = { 1 }
    /\ Len(Solutions) = 2

\* C19: the list returned by generate_multiple_solutions is sorted by
\* descending success_probability: of two adjacent elements the earlier
\* one's success_probability is >= the later one's.
C19_SortedDescending ==
    GenerateReturned =>
        \A j \in 1 .. Len(Solutions) - 1 :
            ProbLe(Solutions[j + 1].success_probability,
                   Solutions[j].success_probability)

\* a returned list in which the sort has moved a higher arc before a lower
\* one of smaller success_probability
C19_Witness ==
    /\ GenerateReturned
    /\ \E j \in 1 .. Len(Solutions) - 1 :
           /\ Solutions[j].pitch_angle > Solutions[j + 1].pitch_angle
           /\ ~ ProbLe(Solutions[j].success_probability,
                       Solutions[j + 1].success_probability)

(***************************************************************************)
(* C20: _get_force_rating over the speeds >= 0.                            *)
(***************************************************************************)
ForceReturned == pc = "done" /\ op = "_get_force_rating"

\* the labels in rank order, and the half-open bins of the speeds >= 0
ForceLabels ==
    << "Very Low", "Low", "Medium-Low", "Medium", "Medium-High", "High", "Very High" >>
ForceRank(label) == CHOOSE i \in 1 .. Len(ForceLabels) : ForceLabels[i] = label
ForceBin(velocity) ==
    IF Lt(velocity, Int2Q(15)) THEN "Very Low"
    ELSE IF Lt(velocity, Int2Q(20)) THEN "Low"
    ELSE IF Lt(velocity, Int2Q(25)) THEN "Medium-Low"
    ELSE IF Lt(velocity, Int2Q(30)) THEN "Medium"
    ELSE IF Lt(velocity, Int2Q(35)) THEN "Medium-High"
    ELSE IF Lt(velocity, Int2Q(45)) THEN "High"
    ELSE "Very High"

\* C20: every speed >= 0 gets the one label of its half-open bin, [0,15)
\* Very Low, [15,20) Low, [20,25) Medium-Low, [25,30) Medium, [30,35)
\* Medium-High, [35,45) High, [45,inf) Very High, and no smaller speed >= 0
\* gets a higher-ranked label.
C20_ExhaustiveMonotonicBins ==
    (ForceReturned /\ Ge(args.velocity, Zero)) =>
        /\ Unwrap(result) = ForceBin(args.velocity)
        /\ \A slower \in ForceSpeeds :
               (Ge(slower, Zero) /\ Le(slower, args.velocity))
                   => ForceRank(_get_force_rating(slower))
                          <= ForceRank(Unwrap(result))

\* a speed on a bin edge has been rated
C20_Witness ==
    /\ ForceReturned
    /\ args.velocity = Int2Q(15)
    /\ Unwrap(result) = "Low"

(***************************************************************************)
(* C21, C22: _calculate_success_probability.                               *)
(***************************************************************************)
ProbabilityReturned == pc = "done" /\ op = "_calculate_success_probability"

\* C21: _calculate_success_probability returns 0.95 for distance 0, for any
\* 0 <= d1 < d2 the value at d2 is not greater than the value at d1, and
\* every returned value lies in [0, 1].
C21_DecreasingFromMaximum ==
    ProbabilityReturned =>
        /\ args.distance_from_hole = Zero => Unwrap(result) = Exact(Q(19, 20))
        /\ \A nearer \in ProbabilityDistances :
               (Ge(nearer, Zero) /\ Lt(nearer, args.distance_from_hole))
                   => ProbLe(Unwrap(result),
                             _calculate_success_probability(optimizer.hole_radius, nearer))
        /\ ProbLe(Exact(Zero), Unwrap(result))
        /\ ProbLe(Unwrap(result), Exact(One))

\* a distance beyond the hole radius has been rated, below the value at 0
C21_Witness ==
    /\ ProbabilityReturned
    /\ Gt(args.distance_from_hole, optimizer.hole_radius)
    /\ Unwrap(result).exp
    /\ ~ ProbLe(Exact(Q(19, 20)), Unwrap(result))

\* a lower bound of e^x for x >= 0: the Taylor polynomial of degree 3
ExpLowerBound(x) ==
    Add(Add(Add(One, x), Div(Mul(x, x), Two)), Div(Mul(Mul(x, x), x), Int2Q(6)))

\* the value is below the rational c, 0 < c < 0.95: it is 0.95 / (1 + e^x)
\* with x >= 0 and 0.95 / (1 + lower bound of e^x) < c, or a rational below c
ProbBelow(p, c) ==
    IF p.exp
    THEN /\ Ge(p.q, Zero)
         /\ Lt(Q(19, 20), Mul(c, Add(One, ExpLowerBound(p.q))))
    ELSE Lt(p.q, c)

\* C22: for the optimizer's positive hole_radius r,
\* _calculate_success_probability(r) lies strictly between 0.4 and 0.6 and
\* _calculate_success_probability(5 * r) is below 0.1.
C22_HalfPointAtRadius ==
    ProbabilityReturned =>
        /\ args.distance_from_hole = optimizer.hole_radius
               => /\ ~ Unwrap(result).exp
                  /\ Lt(Q(4, 10), Unwrap(result).q)
                  /\ Lt(Unwrap(result).q, Q(6, 10))
        /\ args.distance_from_hole = Mul(Int2Q(5), optimizer.hole_radius)
               => ProbBelow(Unwrap(result), Q(1, 10))

\* the distance 5 * hole_radius has been rated
C22_Witness ==
    /\ ProbabilityReturned
    /\ Gt(optimizer.hole_radius, Zero)
    /\ args.distance_from_hole = Mul(Int2Q(5), optimizer.hole_radius)
    /\ Unwrap(result).exp

(***************************************************************************)
(* C29: the length of generate_multiple_solutions' result.                 *)
(***************************************************************************)
Max(a, b) == IF a >= b THEN a ELSE b
Min(a, b) == IF a <= b THEN a ELSE b

\* C29: generate_multiple_solutions returns at most num_solutions
\* recommendations and never more than 3: the result has length
\* <= max(0, min(num_solutions, 3)) for every integer num_solutions, 0 and
\* negative values included, and every solution comes from one of the first
\* min(num_solutions, 3) sub-ranges of angle_ranges.
C29_AtMostRequested ==
    GenerateReturned =>
        /\ Len(Solutions) <= Max(0, Min(args.num_solutions, 3))
        /\ \A j \in 1 .. Len(Solutions) :
               \E i \in 1 .. Min(args.num_solutions, 3) :
                   /\ angle_ranges[i][1] <= Solutions[j].pitch_angle
                   /\ Solutions[j].pitch_angle <= angle_ranges[i][2]

(***************************************************************************)
(* C25: the ground stop of the sampling loop.                              *)
(***************************************************************************)
\* C25: whenever stop_at_ground is enabled and the sampled height at a grid
\* time t > 0 is below 0, the loop stops at that iteration, the negative
\* sample is not appended, and exactly one terminal point with y = 0 is
\* appended as the last element, also when y0 <= 0.
C25_GroundStopProtocol ==
    [][ (/\ pc = "loop"
         /\ op = "calculate_trajectory"
         /\ LoopCondition(t, args.max_time)
         /\ args.stop_at_ground
         /\ Gt(t, Zero)
         /\ Lt(Current.y, Zero))
            => /\ pc' = "done"
               /\ Len(trajectory') = Len(trajectory) + 1
               /\ SubSeq(trajectory', 1, Len(trajectory)) = trajectory
               /\ trajectory'[Len(trajectory')].y = Zero
               /\ \A i \in 1 .. Len(trajectory') :
                      trajectory'[i].t = t => Ge(trajectory'[i].y, Zero) ]_vars

(***************************************************************************)
(* C28: the terminal point of the sampled run and find_landing_point.      *)
(***************************************************************************)
LandingOfCall ==
    find_landing_point(gravity, args.initial_position, args.initial_velocity)

\* C28: whenever the ground stop of calculate_trajectory appends its
\* analytically computed terminal point, that point equals in all seven
\* fields (x, y, z, t, vx, vy, vz) the point find_landing_point returns for
\* the same initial position and velocity.
C28_TerminalPointIsLandingPoint ==
    [][ (/\ pc = "loop"
         /\ op = "calculate_trajectory"
         /\ pc' = "done"
         /\ Len(trajectory') = Len(trajectory) + 1)
            => /\ ~ IsNone(LandingOfCall)
               /\ \A field \in { "x", "y", "z", "t", "vx", "vy", "vz" } :
                      trajectory'[Len(trajectory')][field] = Unwrap(LandingOfCall)[field]
       ]_vars

\* a returned run that ended with the terminal point, off the sampling grid
\* and with lateral motion
C28_Witness ==
    /\ GroundStopped
    /\ Len(trajectory) >= 3
    /\ Last.y = Zero
    /\ Lt(trajectory[Len(trajectory) - 1].t, Last.t)
    /\ Lt(Last.t, t)
    /\ Last.vz # Zero
    /\ Last = Unwrap(LandingOfCall)

(***************************************************************************)
(* C27: the trajectory is never empty for max_time >= 0.                   *)
(***************************************************************************)
\* C27: calculate_trajectory returns a non-empty list whenever
\* max_time >= 0, its first element being the t = 0 sample; with the default
\* max_time = 5.0 of optimize_for_target no evaluation of the objective
\* returns the empty-trajectory penalty, and the re-simulated trajectory of
\* the recommendation has a last element.
C27_NeverEmpty ==
    /\ (TrajReturned /\ Ge(args.max_time, Zero))
           => /\ trajectory # << >>
              /\ trajectory[1].t = Zero
    /\ OptimizeReturned
           => /\ \A params \in SearchGrid(Bounds(args.velocity_range, args.angle_range)) :
                     /\ calculate_from_angles_and_speed(
                            optimizer.gravity, args.throw_position,
                            params[1], params[2], params[3]) # << >>
                     /\ objective_function(optimizer.gravity, args.throw_position,
                                           args.target_position, params) # Penalty
              /\ Recommended.trajectory # << >>

\* a call with max_time = 0 launched below the ground has returned the
\* launch sample alone
C27_Witness ==
    /\ TrajReturned
    /\ args.max_time = Zero
    /\ args.stop_at_ground
    /\ Lt(args.initial_position[2], Zero)
    /\ Len(trajectory) = 1

(***************************************************************************)
(* C23, C30: optimize_for_cornhole_board.                                  *)
(***************************************************************************)
BoardCallEnded == op = "optimize_for_cornhole_board" /\ pc \in { "done", "raised" }
Passed == Unwrap(called)
\* h, the hole's distance from the board's front edge
HoleFromFront == Sub(STANDARD_BOARD_LENGTH, Q(9, 12))

\* C23: optimize_for_cornhole_board(throw_distance, throw_height,
\* lateral_offset) calls optimize_for_target with the throw position
\* (0, throw_height, lateral_offset) and the target position
\* (throw_distance + h, (h / STANDARD_BOARD_LENGTH) * STANDARD_BOARD_HEIGHT_BACK, 0),
\* h = STANDARD_BOARD_LENGTH - 9/12, and returns what that call returns.
C23_BoardCallDelegates ==
    BoardCallEnded =>
        /\ Passed.throw_position = << Zero, args.throw_height, args.lateral_offset >>
        /\ Passed.target_position =
               << Add(args.throw_distance, HoleFromFront),
                  Mul(Div(HoleFromFront, STANDARD_BOARD_LENGTH),
                      STANDARD_BOARD_HEIGHT_BACK),
                  Zero >>
        /\ Passed.velocity_range = args.velocity_range
        /\ Passed.angle_range = args.angle_range
        /\ Passed.method = args.method
        /\ result = optimize_for_target(optimizer.gravity, optimizer.hole_radius,
                                        Passed.throw_position, Passed.target_position,
                                        Passed.velocity_range, Passed.angle_range,
                                        Passed.method, args.fails, rng)

\* a board call with a lateral offset has returned a recommendation
C23_Witness ==
    /\ BoardCallEnded
    /\ pc = "done"
    /\ args.lateral_offset # Zero
    /\ Recommended.trajectory # << >>
    /\ Recommended.trajectory[1].z = args.lateral_offset

InLoop == pc = "loop" /\ op = "calculate_trajectory"

\* C26: calculate_trajectory terminates on every finite input: the sampling
\* loop ends after finitely many iterations, at the ground stop or when t
\* exceeds max_time, also when time_step is 0 or negative and when
\* stop_at_ground is disabled.
C26_Terminates == InLoop ~> (pc = "done")

\* the calls with a positive time step return
InLoopWithPositiveStep == InLoop /\ Gt(args.time_step, Zero)
TerminatesWithPositiveStep == InLoopWithPositiveStep ~> (pc = "done")

(***************************************************************************)
(* C24: no operation writes shared state.                                  *)
(***************************************************************************)
\* what the second thread's call returns when it runs alone
AloneResult(call) ==
    IF call.op = "find_landing_point"
    THEN find_landing_point(gravity, call.args[1], call.args[2])
    ELSE calculate_required_velocity_2d(gravity, call.args[1], call.args[2],
                                        call.args[3], call.args[4])

\* the returned list is the list of the call run alone, and so is the
\* result of the second thread's call
ResultsAsAlone ==
    (pc = "done" /\ op \in { "calculate_trajectory", "calculate_from_angles_and_speed" })
        => /\ trajectory = calculate_trajectory(gravity, args.initial_position,
                                                args.initial_velocity, args.time_step,
                                                args.max_time, args.stop_at_ground)
           /\ ~ IsNone(other) => Unwrap(other).result = AloneResult(Unwrap(other))

\* C24: no operation writes shared state: every step of every operation
\* leaves calculator.gravity, optimizer.hole_radius and the optimizer's
\* calculator unchanged, and under every interleaving of a second thread's
\* call with the iterations of calculate_trajectory each call returns what
\* it returns when it runs alone (read at the step that follows the return).
C24_NoSharedWrites ==
    [][ /\ gravity' = gravity
        /\ optimizer' = optimizer
        /\ ResultsAsAlone ]_vars

\* calculate_trajectory has returned a list with a terminal point after a
\* second thread's find_landing_point ran between two of its iterations
C24_Witness ==
    /\ TrajReturned
    /\ GroundStopped
    /\ Len(trajectory) >= 3
    /\ ~ IsNone(other)
    /\ Unwrap(other).op = "find_landing_point"
    /\ ~ IsNone(Unwrap(other).result)

====
